---- MODULE Spec2Model ----
(***************************************************************************)
(* Model of streamlit_app.py: the score-upload handler (parse_score_file,  *)
(* assemble_score and the functions it calls) as a state machine.          *)
(*                                                                         *)
(* Units.  A duration is an integer number of sixteenth notes (quarter     *)
(* length times 4), so 0.5, 1.0, 2.0, 4.0 are 2, 4, 8, 16 and the          *)
(* midpoints 0.75, 1.5, 3.0 are 3, 6, 12.  An onset is an integer number   *)
(* of half-millionths of a quarter note, so the code's tolerance 1e-6 is   *)
(* 2.  A pitch is its step letter and its MIDI number.                     *)
(***************************************************************************)
EXTENDS Integers, Sequences, FiniteSets, TLC

VARIABLES
    stage,          \* position of the upload handler
    upload,         \* the uploaded file: its name and the parsed score's flat notesAndRests
    opts,           \* the two checkboxes: with_acc, with_solfege
    diag,           \* diagnostics shown with st.warning / st.error
    parserCalled,   \* converter.parse was invoked
    part,           \* what parse_score_file returned
    simp,           \* simplify_melody_to_elementary: the part built by its loop
    detKey,         \* the tonic analyze_key_simple reported
    p1,             \* the melody part assemble_score works on (simpC)
    mm,             \* build_piano_accompaniment: the melody's measures
    acc,            \* build_piano_accompaniment: the accompaniment's measures
    sc,             \* the assembled score
    exported,       \* the MusicXML was written, rendered and offered for download
    clampArg,       \* argument of a direct call of clamp_octave_C4_C5
    clampRet        \* what that call returned

vars == <<stage, upload, opts, diag, parserCalled, part, simp, detKey, p1, mm,
          acc, sc, exported, clampArg, clampRet>>

----------------------------------------------------------------------------
(* Bounds of the model *)

MaxImportLen == 3     \* elements of an imported score (SpecImport)
MaxMelodyLen == 2     \* events of a melody (SpecSimplify, Spec)
MaxDur == 20          \* longest raw duration, in sixteenths (5.0 quarter notes)
MinMidi == 0          \* lowest and highest MIDI number of a raw note
MaxMidi == 127
MaxBarNotes == 3      \* events of a melody handed to the accompaniment (SpecChord)

----------------------------------------------------------------------------
(* Pitches, notes and rests *)

Letters == <<"C", "D", "E", "F", "G", "A", "B">>

LetterIdx(l) == CHOOSE i \in 1..7 : Letters[i] = l

\* Semitones of each natural step above C.
NaturalPc == [l \in {"C", "D", "E", "F", "G", "A", "B"} |->
                CASE l = "C" -> 0 [] l = "D" -> 2 [] l = "E" -> 4 [] l = "F" -> 5
                  [] l = "G" -> 7 [] l = "A" -> 9 [] l = "B" -> 11]

\* The step music21 gives a pitch built from a MIDI number:
\* C C# D E- E F F# G G# A B- B.
DefaultStep == <<"C", "C", "D", "E", "E", "F", "F", "G", "G", "A", "B", "B">>

SpelledPitch(midi) == [step |-> DefaultStep[(midi % 12) + 1], midi |-> midi]

NewNote(p, dur) ==
    [kind |-> "Note", step |-> p.step, midi |-> p.midi, dur |-> dur, lyric |-> ""]

NewRest(dur) ==
    [kind |-> "Rest", step |-> "-", midi |-> 0, dur |-> dur, lyric |-> ""]

PitchOf(n) == [step |-> n.step, midi |-> n.midi]

NewPart(id, events) == [id |-> id, events |-> events]

NoPart == [id |-> "None", events |-> <<>>]

\* Pitch.transpose / Stream.transpose by an interval of gen steps and sem semitones.
TransposePitch(p, gen, sem) ==
    [step |-> Letters[((LetterIdx(p.step) - 1 + gen) % 7) + 1], midi |-> p.midi + sem]

----------------------------------------------------------------------------
(* clamp_octave_C4_C5 *)

target_low == 60      \* pitch.Pitch('C4').midi
target_high == 72     \* pitch.Pitch('C5').midi

\* while p.pitch.midi < target_low: p.transpose(12, inPlace=True)
RECURSIVE clamp_raise(_)
clamp_raise(p) ==
    IF p.midi < target_low THEN clamp_raise(TransposePitch(p, 7, 12)) ELSE p

\* The lowering loop run as an "if": one octave down at most.
clamp_lower_once(p) ==
    IF p.midi > target_high THEN TransposePitch(p, -7, -12) ELSE p

\* while p.pitch.midi > target_high: p.transpose(-12, inPlace=True)
RECURSIVE clamp_lower(_)
clamp_lower(p) ==
    IF p.midi > target_high THEN clamp_lower(TransposePitch(p, -7, -12)) ELSE p

clamp_octave_C4_C5(el) ==
    IF el.kind # "Note"
    THEN el
    ELSE LET q == clamp_lower(clamp_raise(PitchOf(el)))
         IN [el EXCEPT !.step = q.step, !.midi = q.midi]

----------------------------------------------------------------------------
(* simplify_melody_to_elementary *)

qset == <<2, 4, 8, 16>>     \* [0.5, 1.0, 2.0, 4.0]

Abs(x) == IF x < 0 THEN -x ELSE x

\* Python's order on the tuples (abs(x - dur), x).
TupleLess(a, b) == a[1] < b[1] \/ (a[1] = b[1] /\ a[2] < b[2])

\* min(qset, key=lambda x: (abs(x - dur), x))
quantize(dur) ==
    LET key(x) == <<Abs(x - dur), x>>
        cand == {qset[i] : i \in 1..Len(qset)}
    IN CHOOSE x \in cand : \A y \in cand : y # x => TupleLess(key(x), key(y))

\* The loop body, with a Rest dropped instead of copied.
simplify_element_notes_only(el) ==
    IF el.kind = "Note"
    THEN <<clamp_octave_C4_C5(NewNote(PitchOf(el), quantize(el.dur)))>>
    ELSE <<>>

\* The body of "for el in part.flat.notesAndRests": what it appends to simp.
simplify_element(el) ==
    IF el.kind = "Note"
    THEN <<clamp_octave_C4_C5(NewNote(PitchOf(el), quantize(el.dur)))>>
    ELSE IF el.kind = "Rest"
         THEN <<NewRest(quantize(el.dur))>>
         ELSE <<>>

RECURSIVE simplify_loop(_)
simplify_loop(events) ==
    IF events = <<>>
    THEN <<>>
    ELSE simplify_element(Head(events)) \o simplify_loop(Tail(events))

----------------------------------------------------------------------------
(* analyze_key_simple and transpose_to_C_major *)

NoKey == [step |-> "-", alter |-> 0]

\* The tonics s.analyze('key') may report (the key analysis is music21's; its
\* result is any of the key names it accepts, or C when the analysis raises).
\* Only the tonic is read by the code, so the mode is left out.
KeyTonics ==
    { [step |-> "C", alter |-> 0], [step |-> "C", alter |-> 1], [step |-> "C", alter |-> -1],
      [step |-> "D", alter |-> -1], [step |-> "D", alter |-> 0], [step |-> "D", alter |-> 1],
      [step |-> "E", alter |-> -1], [step |-> "E", alter |-> 0],
      [step |-> "F", alter |-> 0], [step |-> "F", alter |-> 1],
      [step |-> "G", alter |-> -1], [step |-> "G", alter |-> 0], [step |-> "G", alter |-> 1],
      [step |-> "A", alter |-> -1], [step |-> "A", alter |-> 0], [step |-> "A", alter |-> 1],
      [step |-> "B", alter |-> -1], [step |-> "B", alter |-> 0] }

analyze_key_simple(s) == KeyTonics

\* An interval that always leads up to the next C (an octave for a tonic of C).
interval_up_to_C(tonic) ==
    [gen |-> 7 - (LetterIdx(tonic.step) - 1),
     sem |-> 12 - (NaturalPc[tonic.step] + tonic.alter)]

\* interval.Interval(k.tonic, pitch.Pitch('C')): both pitches have no octave and
\* are read in octave 4, so the interval leads from the tonic down to C4.
interval_to_C(tonic) ==
    [gen |-> -(LetterIdx(tonic.step) - 1),
     sem |-> -(NaturalPc[tonic.step] + tonic.alter)]

\* s.transpose(i): every Note moved by the interval, Rests as they are.
stream_transpose(events, i) ==
    [j \in 1..Len(events) |->
        IF events[j].kind = "Note"
        THEN LET q == TransposePitch(PitchOf(events[j]), i.gen, i.sem)
             IN [events[j] EXCEPT !.step = q.step, !.midi = q.midi]
        ELSE events[j]]

\* transpose_to_C_major with the key k detected; ok is FALSE when the
\* transposition raises and the original stream is returned.
transpose_to_C_major(events, k, ok) ==
    IF ok THEN stream_transpose(events, interval_to_C(k)) ELSE events

----------------------------------------------------------------------------
(* attach_solfege_lyrics *)

\* SOLFEGE_C_MAJOR, the Korean syllables written in Latin letters.
SOLFEGE_C_MAJOR(letter) ==
    CASE letter = "C" -> "do" [] letter = "D" -> "re" [] letter = "E" -> "mi"
      [] letter = "F" -> "fa" [] letter = "G" -> "sol" [] letter = "A" -> "la"
      [] letter = "B" -> "si" [] OTHER -> ""

attach_solfege_lyrics(events) ==
    [j \in 1..Len(events) |->
        IF events[j].kind = "Note"
        THEN [events[j] EXCEPT !.lyric = SOLFEGE_C_MAJOR(events[j].step)]
        ELSE events[j]]

----------------------------------------------------------------------------
(* pick_chord_for_measure and build_piano_accompaniment *)

TRIADS_C(label) ==
    CASE label = "C" -> <<"C4", "E4", "G4">>
      [] label = "F" -> <<"F3", "A3", "C4">>
      [] label = "G" -> <<"G3", "B3", "D4">>
      [] label = "Am" -> <<"A3", "C4", "E4">>
      [] OTHER -> <<"C4", "E4", "G4">>

\* letters: n.pitch.name[0] of the Notes of the measure.
measure_letters(events) ==
    LET note_idx == {j \in 1..Len(events) : events[j].kind = "Note"}
    IN [l \in {Letters[i] : i \in 1..7} |->
           Cardinality({j \in note_idx : events[j].step = l})]

\* The rules with the F rule tried before the G rule.
pick_chord_F_first(events) ==
    LET count == measure_letters(events)
    IN IF count["F"] + count["A"] >= 2 THEN "F"
       ELSE IF count["G"] + count["B"] >= 1 THEN "G"
       ELSE IF count["A"] + count["C"] >= 2 THEN "Am"
       ELSE "C"

pick_chord_for_measure(events) ==
    LET count == measure_letters(events)
    IN IF count["G"] + count["B"] >= 1 THEN "G"
       ELSE IF count["F"] + count["A"] >= 2 THEN "F"
       ELSE IF count["A"] + count["C"] >= 2 THEN "Am"
       ELSE "C"

BarLen == 16      \* meter.TimeSignature('4/4'): four quarter notes

RECURSIVE SumDur(_, _)
SumDur(events, n) == IF n = 0 THEN 0 ELSE SumDur(events, n - 1) + events[n].dur

\* The events whose onset falls into bar b.
measure_events(events, b) ==
    LET F[n \in 0..Len(events)] ==
            IF n = 0 THEN <<>>
            ELSE IF SumDur(events, n - 1) \div BarLen = b - 1
                 THEN Append(F[n - 1], events[n])
                 ELSE F[n - 1]
    IN F[Len(events)]

\* melodyC.makeMeasures(inPlace=False): bars of BarLen from offset 0 up to the end
\* of the last event (one bar at least), numbered from 1; an event lies in the
\* bar its onset falls into.
makeMeasures(events) ==
    LET total == SumDur(events, Len(events))
        nbars == IF total = 0 THEN 1 ELSE (total + BarLen - 1) \div BarLen
    IN [b \in 1..nbars |-> [number |-> b, events |-> measure_events(events, b)]]

NewChord(pitches, dur) == [pitches |-> pitches, dur |-> dur]

\* The loop body with only the chord on beat 1 appended.
accompaniment_measure_one_chord(m) ==
    [number |-> m.number,
     chords |-> <<NewChord(TRIADS_C(pick_chord_for_measure(m.events)), 8)>>]

\* The body of "for m in measures": the measure appended to acc.
accompaniment_measure(m) ==
    LET chord_name == pick_chord_for_measure(m.events)
        pitches == TRIADS_C(chord_name)
        ch1 == NewChord(pitches, 8)
        ch2 == NewChord(pitches, 8)
    IN [number |-> m.number, chords |-> <<ch1, ch2>>]

build_piano_accompaniment(measures) ==
    [b \in 1..Len(measures) |-> accompaniment_measure(measures[b])]

----------------------------------------------------------------------------
(* parse_score_file *)

OnsetTol == 2     \* 1e-6

NewElement(kind, p, dur, off) ==
    [kind |-> kind, step |-> p.step, midi |-> p.midi, dur |-> dur, off |-> off]

NoPitch == [step |-> "-", midi |-> 0]

\* "emit previous" and "flush last": what is appended to the part.
emit(highest) ==
    IF highest.kind = "Note"
    THEN <<NewNote(PitchOf(highest), highest.dur)>>
    ELSE IF highest.kind = "Rest"
         THEN <<NewRest(highest.dur)>>
         ELSE <<>>

\* "same onset: choose higher pitch", with the later of two equal pitches kept.
higher_of_last_wins(el, highest_at_offset) ==
    IF el.kind = "Note" /\ highest_at_offset.kind = "Note"
       /\ el.midi >= highest_at_offset.midi
    THEN el
    ELSE highest_at_offset

\* "same onset: choose higher pitch".
higher_of(el, highest_at_offset) ==
    IF el.kind = "Note" /\ highest_at_offset.kind = "Note"
       /\ el.midi > highest_at_offset.midi
    THEN el
    ELSE highest_at_offset

\* The loop "for el in flat" after its first element, and the final flush.
RECURSIVE top_line_loop(_, _, _)
top_line_loop(flat, last_offset, highest_at_offset) ==
    IF flat = <<>>
    THEN emit(highest_at_offset)
    ELSE LET el == Head(flat)
         IN IF Abs(el.off - last_offset) < OnsetTol
            THEN top_line_loop(Tail(flat), last_offset, higher_of(el, highest_at_offset))
            ELSE emit(highest_at_offset) \o top_line_loop(Tail(flat), el.off, el)

top_line(flat) ==
    IF flat = <<>>
    THEN <<>>
    ELSE top_line_loop(Tail(flat), Head(flat).off, Head(flat))

\* upload.name.lower(), on the letters the model's names use.
lower_char(c) ==
    CASE c = "M" -> "m" [] c = "I" -> "i" [] c = "D" -> "d" [] c = "P" -> "p"
      [] c = "F" -> "f" [] c = "X" -> "x" [] c = "L" -> "l" [] OTHER -> c

lower(name) == [i \in 1..Len(name) |-> lower_char(name[i])]

endswith(name, suffix) ==
    /\ Len(name) >= Len(suffix)
    /\ SubSeq(name, Len(name) - Len(suffix) + 1, Len(name)) = suffix

ExtMid == <<".", "m", "i", "d">>
ExtMidi == <<".", "m", "i", "d", "i">>
ExtMusicxml == <<".", "m", "u", "s", "i", "c", "x", "m", "l">>
ExtXml == <<".", "x", "m", "l">>
ExtAbc == <<".", "a", "b", "c">>
ExtPdf == <<".", "p", "d", "f">>

\* The three branches that call converter.parse.
is_parsed_format(name) ==
    \/ endswith(name, ExtMid) \/ endswith(name, ExtMidi)
    \/ endswith(name, ExtMusicxml) \/ endswith(name, ExtXml)
    \/ endswith(name, ExtAbc)

----------------------------------------------------------------------------
(* State *)

NoElement == [kind |-> "None", step |-> "-", midi |-> 0, dur |-> 0, lyric |-> ""]

NoScore == [parts |-> <<>>]

Name(ext) == <<"s">> \o ext

\* Names of uploaded files: the accepted extensions, PDF, upper case, and others.
UploadNames ==
    { Name(ExtMid), Name(ExtMidi), Name(ExtMusicxml), Name(ExtXml), Name(ExtAbc),
      Name(ExtPdf), <<"s", ".", "P", "D", "F">>, <<"s", ".", "M", "I", "D">>,
      <<"s", ".", "t", "x", "t">>, <<"a", "b", "c">>, <<"s", ".", "m", "p", "3">>,
      <<"s", ".", "m", "i", "d", ".", "b", "a", "k">>, <<"s">> }

SeqsUpTo(S, n) == UNION { [1..k -> S] : k \in 0..n }

\* A melody as the flat list of a one-voice score: onsets OnsetTol apart.
Monophonic(events) ==
    [j \in 1..Len(events) |->
        NewElement(events[j].kind, PitchOf(events[j]), events[j].dur, (j - 1) * OnsetTol)]

\* Scores of the whole-handler specification.
HandlerEvents ==
    { NewNote(SpelledPitch(55), 3), NewNote(SpelledPitch(84), 16), NewRest(4) }

HandlerScores(maxLen) == { Monophonic(m) : m \in SeqsUpTo(HandlerEvents, maxLen) }

\* Scores of the importer's specification: Notes, Rests and Chords, the first at
\* onset 0 and each next one 0..OnsetTol after the one before it.
ImportKinds ==
    { NewElement("Note", SpelledPitch(60), 4, 0), NewElement("Note", SpelledPitch(64), 4, 0),
      NewElement("Note", SpelledPitch(64), 8, 0), NewElement("Note", SpelledPitch(67), 4, 0),
      NewElement("Rest", NoPitch, 4, 0), NewElement("Chord", NoPitch, 4, 0) }

RECURSIVE SumGaps(_, _)
SumGaps(gaps, n) == IF n <= 1 THEN 0 ELSE SumGaps(gaps, n - 1) + gaps[n]

ImportScores(maxLen) ==
    UNION { { [j \in 1..k |-> [els[j] EXCEPT !.off = SumGaps(gaps, j)]] :
                els \in [1..k -> ImportKinds], gaps \in [2..k -> 0..OnsetTol] } :
            k \in 0..maxLen }

\* Melodies of the simplifier's specification: every raw pitch and duration in a
\* melody of one event, and short melodies over a few pitches and durations.
RawEvents(maxDur) ==
    { NewNote(SpelledPitch(m), d) : m \in MinMidi..MaxMidi, d \in 1..maxDur }
      \cup { NewRest(d) : d \in 1..maxDur }

FewEvents(maxDur) ==
    { NewNote(SpelledPitch(m), d) : m \in {59, 60, 73}, d \in {3, 4, maxDur} }
      \cup { NewRest(d) : d \in {3, 16} }

SimplifyScores(maxLen, maxDur) ==
    { Monophonic(m) :
        m \in [1..1 -> RawEvents(maxDur)] \cup SeqsUpTo(FewEvents(maxDur), maxLen) }

\* Melodies of the accompaniment's specification: the natural quarter notes C4..B4,
\* a whole note G4, a quarter rest and a whole rest.
BarEvents ==
    { NewNote([step |-> Letters[i], midi |-> 60 + NaturalPc[Letters[i]]], 4) : i \in 1..7 }
      \cup { NewNote(SpelledPitch(67), 16), NewRest(4), NewRest(16) }

BarScores(maxLen) == { Monophonic(m) : m \in SeqsUpTo(BarEvents, maxLen) }

Untouched ==
    /\ diag = <<>>
    /\ parserCalled = FALSE
    /\ part = NoPart
    /\ simp = NoPart
    /\ detKey = NoKey
    /\ p1 = NoPart
    /\ mm = <<>>
    /\ acc = <<>>
    /\ sc = NoScore
    /\ exported = FALSE

NoClampCall ==
    /\ clampArg = NoElement
    /\ clampRet = NoElement

\* A file has been uploaded to the score uploader; nothing has run yet.
Init ==
    /\ stage = "uploaded"
    /\ upload \in [name : UploadNames, flat : HandlerScores(MaxMelodyLen)]
    /\ opts \in [with_acc : BOOLEAN, with_solfege : BOOLEAN]
    /\ Untouched
    /\ NoClampCall

----------------------------------------------------------------------------
(* parse_score_file and the handler's "if part:" *)

UNCHANGED_later == UNCHANGED <<upload, opts, simp, detKey, p1, mm, acc, sc, exported,
                               clampArg, clampRet>>

\* The branches that parse also taking a PDF.
parses_with_pdf(name) == is_parsed_format(lower(name)) \/ endswith(lower(name), ExtPdf)

\* name = upload.name.lower() reaches one of the converter.parse branches.
parses(name) == is_parsed_format(lower(name))

\* .mid/.midi/.musicxml/.xml/.abc: converter.parse, then the top-line reduction;
\* an exception (ok = FALSE) is reported and None returned.
ParseAccepted ==
    /\ stage = "uploaded"
    /\ parses(upload.name)
    /\ parserCalled' = TRUE
    /\ \E ok \in BOOLEAN :
         IF ok
         THEN /\ part' = NewPart("ParsedMelody", top_line(upload.flat))
              /\ diag' = diag
              /\ stage' = "parsed"
         ELSE /\ part' = NoPart
              /\ diag' = Append(diag, "error: parse failed")
              /\ stage' = "rejected"
    /\ UNCHANGED_later

\* .pdf: st.warning, return None.
RejectPdf ==
    /\ stage = "uploaded"
    /\ ~parses(upload.name)
    /\ endswith(lower(upload.name), ExtPdf)
    /\ diag' = Append(diag, "warning: PDF needs OMR")
    /\ part' = NoPart
    /\ stage' = "rejected"
    /\ UNCHANGED parserCalled
    /\ UNCHANGED_later

\* any other name: st.error, return None.
RejectUnsupported ==
    /\ stage = "uploaded"
    /\ ~parses(upload.name)
    /\ ~endswith(lower(upload.name), ExtPdf)
    /\ diag' = Append(diag, "error: unsupported format")
    /\ part' = NoPart
    /\ stage' = "rejected"
    /\ UNCHANGED parserCalled
    /\ UNCHANGED_later

----------------------------------------------------------------------------
(* assemble_score *)

\* simplify_melody_to_elementary, up to the end of its loop.
SimplifyLoop ==
    /\ stage = "parsed"
    /\ simp' = NewPart("MelodySimplified", simplify_loop(part.events))
    /\ stage' = "quantized"
    /\ UNCHANGED <<upload, opts, diag, parserCalled, part, detKey, p1, mm, acc, sc,
                   exported, clampArg, clampRet>>

\* simplify_melody_to_elementary, from "simpC = transpose_to_C_major(simp)" on.
TransposeToC ==
    /\ stage = "quantized"
    /\ \E k \in analyze_key_simple(simp.events), ok \in BOOLEAN :
         /\ detKey' = k
         /\ p1' = NewPart("MelodySimplified", transpose_to_C_major(simp.events, k, ok))
    /\ stage' = "simplified"
    /\ UNCHANGED <<upload, opts, diag, parserCalled, part, simp, mm, acc, sc,
                   exported, clampArg, clampRet>>

\* if with_solfege: attach_solfege_lyrics(p1)
AttachSolfege ==
    /\ stage = "simplified"
    /\ opts.with_solfege
    /\ p1' = [p1 EXCEPT !.events = attach_solfege_lyrics(p1.events)]
    /\ stage' = "annotated"
    /\ UNCHANGED <<upload, opts, diag, parserCalled, part, simp, detKey, mm, acc, sc,
                   exported, clampArg, clampRet>>

SkipSolfege ==
    /\ stage = "simplified"
    /\ ~opts.with_solfege
    /\ stage' = "annotated"
    /\ UNCHANGED <<upload, opts, diag, parserCalled, part, simp, detKey, p1, mm, acc,
                   sc, exported, clampArg, clampRet>>

\* sc.insert(0, p1); if with_acc: acc = build_piano_accompaniment(p1); sc.insert(0, acc)
BuildAccompaniment ==
    /\ stage = "annotated"
    /\ opts.with_acc
    /\ mm' = makeMeasures(p1.events)
    /\ acc' = build_piano_accompaniment(mm')
    /\ sc' = [parts |-> <<p1, NewPart("PianoLH", acc')>>]
    /\ stage' = "assembled"
    /\ UNCHANGED <<upload, opts, diag, parserCalled, part, simp, detKey, p1, exported,
                   clampArg, clampRet>>

SkipAccompaniment ==
    /\ stage = "annotated"
    /\ ~opts.with_acc
    /\ sc' = [parts |-> <<p1>>]
    /\ stage' = "assembled"
    /\ UNCHANGED <<upload, opts, diag, parserCalled, part, simp, detKey, p1, mm, acc,
                   exported, clampArg, clampRet>>

\* stream_to_musicxml_string, render_musicxml_with_osmd, st.download_button
Export ==
    /\ stage = "assembled"
    /\ exported' = TRUE
    /\ stage' = "exported"
    /\ UNCHANGED <<upload, opts, diag, parserCalled, part, simp, detKey, p1, mm, acc,
                   sc, clampArg, clampRet>>

Next ==
    \/ ParseAccepted
    \/ RejectPdf
    \/ RejectUnsupported
    \/ SimplifyLoop
    \/ TransposeToC
    \/ AttachSolfege
    \/ SkipSolfege
    \/ BuildAccompaniment
    \/ SkipAccompaniment
    \/ Export

\* The score-upload handler, from the upload to the export.
Spec == Init /\ [][Next]_vars

----------------------------------------------------------------------------
(* The importer alone: parse_score_file on scores with simultaneous events *)

InitImport ==
    /\ stage = "uploaded"
    /\ upload \in [name : {Name(ExtMid)}, flat : ImportScores(MaxImportLen)]
    /\ opts = [with_acc |-> TRUE, with_solfege |-> TRUE]
    /\ Untouched
    /\ NoClampCall

NextImport == ParseAccepted

SpecImport == InitImport /\ [][NextImport]_vars

----------------------------------------------------------------------------
(* The simplifier: parse_score_file and simplify_melody_to_elementary on melodies *)

InitSimplify ==
    /\ stage = "uploaded"
    /\ upload \in [name : {Name(ExtMid)}, flat : SimplifyScores(MaxMelodyLen, MaxDur)]
    /\ opts = [with_acc |-> TRUE, with_solfege |-> TRUE]
    /\ Untouched
    /\ NoClampCall

NextSimplify ==
    \/ ParseAccepted
    \/ SimplifyLoop
    \/ TransposeToC

SpecSimplify == InitSimplify /\ [][NextSimplify]_vars

----------------------------------------------------------------------------
(* clamp_octave_C4_C5 called on its own *)

ClampArgs ==
    { NewNote(SpelledPitch(m), 4) : m \in MinMidi..MaxMidi } \cup { NewRest(4) }

InitClamp ==
    /\ stage = "idle"
    /\ upload = [name |-> <<>>, flat |-> <<>>]
    /\ opts = [with_acc |-> TRUE, with_solfege |-> TRUE]
    /\ Untouched
    /\ clampArg \in ClampArgs
    /\ clampRet = NoElement

ClampCall ==
    /\ clampArg # NoElement
    /\ clampRet = NoElement
    /\ clampRet' = clamp_octave_C4_C5(clampArg)
    /\ UNCHANGED <<stage, upload, opts, diag, parserCalled, part, simp, detKey, p1, mm,
                   acc, sc, exported, clampArg>>

NextClamp == ClampCall

\* The call is made and runs to its return.
SpecClamp == InitClamp /\ [][NextClamp]_vars /\ WF_vars(ClampCall)

----------------------------------------------------------------------------
(* The accompaniment: assemble_score after simplify_melody_to_elementary *)

TonicC == [step |-> "C", alter |-> 0]

\* The state in which simplify_melody_to_elementary has returned, for a melody of
\* natural notes between C4 and B4 whose key was found to be C.
InitChord ==
    /\ stage = "simplified"
    /\ upload \in [name : {Name(ExtMid)}, flat : BarScores(MaxBarNotes)]
    /\ opts \in [with_acc : BOOLEAN, with_solfege : BOOLEAN]
    /\ diag = <<>>
    /\ parserCalled = TRUE
    /\ part = NewPart("ParsedMelody", top_line(upload.flat))
    /\ simp = NewPart("MelodySimplified", simplify_loop(part.events))
    /\ detKey = TonicC
    /\ p1 = NewPart("MelodySimplified", transpose_to_C_major(simp.events, detKey, TRUE))
    /\ mm = <<>>
    /\ acc = <<>>
    /\ sc = NoScore
    /\ exported = FALSE
    /\ NoClampCall

NextChord ==
    \/ AttachSolfege
    \/ SkipSolfege
    \/ BuildAccompaniment
    \/ SkipAccompaniment

SpecChord == InitChord /\ [][NextChord]_vars

----------------------------------------------------------------------------
(* Properties *)

QuantizedDurations == {2, 4, 8, 16}

\* C1: every Note or Rest with raw duration d > 0 is given by
\* simplify_melody_to_elementary a duration that is a member of {0.5, 1.0, 2.0, 4.0},
\* no member is strictly closer to d, and of two equally close members the larger
\* one is chosen (d = 0.75 gives 1.0).
C1_QuantizeNearestTiesToLarger ==
    stage \in {"quantized", "simplified"} =>
        /\ Len(simp.events) = Len(part.events)
        /\ \A i \in 1..Len(simp.events) :
             LET d == part.events[i].dur
                 q == simp.events[i].dur
             IN /\ q \in QuantizedDurations
                /\ \A y \in QuantizedDurations :
                     /\ Abs(y - d) >= Abs(q - d)
                     /\ Abs(y - d) = Abs(q - d) => y <= q

C2_Returned ==
    /\ clampRet # NoElement
    /\ IF clampArg.kind = "Note"
       THEN /\ clampRet.kind = "Note"
            /\ clampRet.midi \in 60..72
            /\ (clampRet.midi - clampArg.midi) % 12 = 0
            /\ clampArg.midi \in 60..72 => clampRet.midi = clampArg.midi
            /\ clampRet.dur = clampArg.dur
       ELSE clampRet = clampArg

\* C2: for a Note with any starting MIDI pitch clamp_octave_C4_C5 terminates and
\* leaves the Note with a MIDI value in 60..72 that differs from the starting value
\* by a multiple of 12 (a pitch already in 60..72 is unchanged); a Rest is returned
\* unchanged.
C2_ClampTerminatesInRange == <>[]C2_Returned

C2_Witness ==
    /\ clampArg.kind = "Note"
    /\ clampArg.midi = 100
    /\ clampRet.kind = "Note"
    /\ clampRet.midi = 64

\* The onset groups of a flat list: GroupStart[i] is the index of the first
\* element of the group of element i, the first element whose onset is not within
\* 1e-6 of the onset that began the group before.
GroupStart(flat) ==
    LET S[i \in 1..Len(flat)] ==
            IF i = 1 THEN 1
            ELSE IF Abs(flat[i].off - flat[S[i - 1]].off) < OnsetTol THEN S[i - 1] ELSE i
    IN S

Groups(flat) == {GroupStart(flat)[i] : i \in 1..Len(flat)}

Members(flat, g) == {i \in 1..Len(flat) : GroupStart(flat)[i] = g}

\* Where the event of group g stands in the output: one event for each group up to
\* g, none for a group that begins with a Chord.
Pos(flat, g) == Cardinality({h \in Groups(flat) : h <= g /\ flat[h].kind # "Chord"})

NotesOnly(flat, g) == \A i \in Members(flat, g) : flat[i].kind = "Note"

TopMidi(flat, g) ==
    CHOOSE t \in {flat[i].midi : i \in Members(flat, g)} :
        \A i \in Members(flat, g) : flat[i].midi <= t

FirstTop(flat, g) ==
    CHOOSE i \in Members(flat, g) :
        /\ flat[i].midi = TopMidi(flat, g)
        /\ \A j \in Members(flat, g) : flat[j].midi = TopMidi(flat, g) => i <= j

\* C3: for every onset group that consists only of Notes, parse_score_file emits
\* exactly one Note, in onset order, with its original duration and the highest
\* pitch of the group; of equal-highest Notes the first in iteration order is kept.
C3_TopLineKeepsHighestNote ==
    stage = "parsed" =>
        LET flat == upload.flat
            out == part.events
        IN /\ Len(out) = Cardinality({h \in Groups(flat) : flat[h].kind # "Chord"})
           /\ \A g \in Groups(flat) :
                NotesOnly(flat, g) =>
                    LET best == flat[FirstTop(flat, g)]
                    IN /\ Pos(flat, g) \in 1..Len(out)
                       /\ out[Pos(flat, g)].kind = "Note"
                       /\ PitchOf(out[Pos(flat, g)]) = PitchOf(best)
                       /\ out[Pos(flat, g)].dur = best.dur

\* Two groups of Notes, the second with its highest Note twice and not first.
C3_Witness ==
    /\ stage = "parsed"
    /\ Len(upload.flat) = 3
    /\ \E g \in Groups(upload.flat) :
         /\ NotesOnly(upload.flat, g)
         /\ Cardinality(Members(upload.flat, g)) = 3
         /\ upload.flat[g].midi < TopMidi(upload.flat, g)
         /\ upload.flat[g + 1].midi = upload.flat[g + 2].midi
         /\ upload.flat[g + 1].dur # upload.flat[g + 2].dur
         /\ part.events = <<NewNote(PitchOf(upload.flat[g + 1]), upload.flat[g + 1].dur)>>

\* C8: a Rest is emitted for an onset group only if the group contains no Note:
\* for every onset group of Notes and Rests with at least one Note, in any order
\* of its events, the event emitted is a Note.
C8_RestOnlyWithoutNote ==
    stage = "parsed" =>
        LET flat == upload.flat
            out == part.events
        IN \A g \in Groups(flat) :
             ( /\ \A i \in Members(flat, g) : flat[i].kind \in {"Note", "Rest"}
               /\ \E i \in Members(flat, g) : flat[i].kind = "Note" )
             => /\ Pos(flat, g) \in 1..Len(out)
                /\ out[Pos(flat, g)].kind = "Note"

NoteLetters(events) == {events[j].step : j \in {k \in 1..Len(events) : events[k].kind = "Note"}}

LetterCount(events, ls) ==
    Cardinality({j \in 1..Len(events) : events[j].kind = "Note" /\ events[j].step \in ls})

LabelOfTriad(pitches) ==
    CASE pitches = <<"C4", "E4", "G4">> -> "C"
      [] pitches = <<"F3", "A3", "C4">> -> "F"
      [] pitches = <<"G3", "B3", "D4">> -> "G"
      [] pitches = <<"A3", "C4", "E4">> -> "Am"
      [] OTHER -> "?"

\* C4: for every measure pick_chord_for_measure gives the label of the first rule
\* that matches: G if a letter is G or B; else F if count(F)+count(A) >= 2; else Am
\* if count(A)+count(C) >= 2; else C.  Letters {G, A, F} give G, no notes give C.
C4_ChordRuleOrder ==
    (stage = "assembled" /\ opts.with_acc) =>
        \A b \in 1..Len(mm) :
            LET ev == mm[b].events
                label == LabelOfTriad(acc[b].chords[1].pitches)
            IN /\ (NoteLetters(ev) \cap {"G", "B"} # {}) => label = "G"
               /\ (NoteLetters(ev) \cap {"G", "B"} = {}
                     /\ LetterCount(ev, {"F", "A"}) >= 2) => label = "F"
               /\ (NoteLetters(ev) \cap {"G", "B"} = {}
                     /\ LetterCount(ev, {"F", "A"}) < 2
                     /\ LetterCount(ev, {"A", "C"}) >= 2) => label = "Am"
               /\ (NoteLetters(ev) \cap {"G", "B"} = {}
                     /\ LetterCount(ev, {"F", "A"}) < 2
                     /\ LetterCount(ev, {"A", "C"}) < 2) => label = "C"

\* A measure with the letters G, A and F has the G triad.
C4_Witness ==
    /\ stage = "assembled"
    /\ opts.with_acc
    /\ Len(mm) = 1
    /\ Len(mm[1].events) = 3
    /\ NoteLetters(mm[1].events) = {"G", "A", "F"}
    /\ acc[1].chords[1].pitches = <<"G3", "B3", "D4">>

UnsupportedNames ==
    { <<"s", ".", "p", "d", "f">>, <<"s", ".", "P", "D", "F">>, <<"s", ".", "t", "x", "t">>,
      <<"a", "b", "c">>, <<"s", ".", "m", "p", "3">>,
      <<"s", ".", "m", "i", "d", ".", "b", "a", "k">>, <<"s">> }

\* C5: for an uploaded file whose lower-cased name does not end in .mid, .midi,
\* .musicxml, .xml or .abc, parse_score_file emits a diagnostic, produces no events
\* and returns None without invoking the parser, and none of the later stages runs.
C5_UnsupportedRejected ==
    (upload.name \in UnsupportedNames /\ stage # "uploaded") =>
        /\ stage = "rejected"
        /\ Len(diag) = 1
        /\ ~parserCalled
        /\ part = NoPart
        /\ simp = NoPart
        /\ detKey = NoKey
        /\ p1 = NoPart
        /\ mm = <<>>
        /\ acc = <<>>
        /\ sc = NoScore
        /\ ~exported
        /\ ~ENABLED Next

C5_Witness ==
    /\ upload.name = <<"s", ".", "P", "D", "F">>
    /\ upload.flat # <<>>
    /\ stage = "rejected"
    /\ diag = <<"warning: PDF needs OMR">>

Pitches(events) == [j \in 1..Len(events) |-> PitchOf(events[j])]

\* C6: transpose_to_C_major is idempotent on input whose detected tonic is C: every
\* pitched event of the output has the pitch it had in the input, and the
\* normalizer applied to its own output gives the same pitches again.
C6_TransposeIdempotentOnC ==
    (stage = "simplified" /\ detKey = TonicC) =>
        /\ Pitches(p1.events) = Pitches(simp.events)
        /\ \A ok \in BOOLEAN :
             Pitches(transpose_to_C_major(p1.events, TonicC, ok)) = Pitches(p1.events)

C6_Witness ==
    /\ stage = "simplified"
    /\ detKey = TonicC
    /\ Len(p1.events) = 2
    /\ p1.events[1].kind = "Note"
    /\ p1.events[2].kind = "Note"
    /\ p1.events[1].midi # p1.events[2].midi

\* C7: the melody produced by simplify_melody_to_elementary has as many events as
\* its input, the i-th from the i-th (Note to Note, Rest to Rest): no event is
\* dropped, merged or split.
C7_SimplifyOneToOne ==
    /\ stage \in {"quantized", "simplified"} =>
          /\ Len(simp.events) = Len(part.events)
          /\ \A i \in 1..Len(part.events) : simp.events[i].kind = part.events[i].kind
    /\ stage = "simplified" =>
          /\ Len(p1.events) = Len(part.events)
          /\ \A i \in 1..Len(part.events) :
               /\ p1.events[i].kind = part.events[i].kind
               /\ p1.events[i].dur \in QuantizedDurations
          /\ \E s \in -11..1 :
               \A i \in 1..Len(part.events) :
                   part.events[i].kind = "Note" =>
                       (p1.events[i].midi - part.events[i].midi - s) % 12 = 0

C7_Witness ==
    /\ stage = "simplified"
    /\ Len(part.events) = 2
    /\ part.events[1].kind = "Rest"
    /\ part.events[2].kind = "Note"
    /\ p1.events[1].kind = "Rest"
    /\ p1.events[2].kind = "Note"

\* C9: build_piano_accompaniment emits one accompaniment measure per melody
\* measure, in the same order and with the same number, each with exactly two
\* chords of the triad of the label pick_chord_for_measure chose and of duration
\* 2.0; a measure of rests only gets two C triads (C4, E4, G4).
C9_TwoBlockChordsPerMeasure ==
    (stage = "assembled" /\ opts.with_acc) =>
        /\ Len(acc) = Len(mm)
        /\ \A b \in 1..Len(mm) :
             /\ acc[b].number = mm[b].number
             /\ Len(acc[b].chords) = 2
             /\ \A c \in 1..2 :
                  /\ acc[b].chords[c].pitches = TRIADS_C(pick_chord_for_measure(mm[b].events))
                  /\ acc[b].chords[c].dur = 8
                  /\ NoteLetters(mm[b].events) = {} =>
                        acc[b].chords[c].pitches = <<"C4", "E4", "G4">>

\* Two measures, the second of rests only.
C9_Witness ==
    /\ stage = "assembled"
    /\ opts.with_acc
    /\ Len(mm) = 2
    /\ NoteLetters(mm[1].events) = {"G"}
    /\ mm[2].events = <<NewRest(16)>>
    /\ acc[1].chords[2].pitches = <<"G3", "B3", "D4">>
    /\ acc[2].number = 2
    /\ acc[2].chords[2].pitches = <<"C4", "E4", "G4">>

\* C10: every Note of the melody part that assemble_score hands on has a MIDI value
\* in 60..72: the octave clamp still holds after the transposition to C.
C10_ClampHoldsAfterTranspose ==
    stage = "simplified" =>
        \A i \in 1..Len(p1.events) :
            p1.events[i].kind = "Note" => p1.events[i].midi \in 60..72

====
